---- MODULE Spec2Model ----
\* Model of tools/bench/bench_report.py: the two line-oriented parsers
\* (parse_go, parse_ts) and the report pipeline of main.
\*
\* Text is modelled as a sequence of atoms.  An atom is a literal chunk of
\* characters: a single character (" ", "\t", "1", ".", "-") or a whole word
\* that the code only ever handles as a unit ("Benchmark", "ns/op", "pkg:",
\* "/crypto/e2ee").  The string operations of the code (strip, split,
\* startswith, endswith, in, replace, the regular expression) are written
\* over atom sequences and act on them as the Python operations act on the
\* characters they stand for.
EXTENDS Integers, Sequences, FiniteSets, TLC

VARIABLES pc, go_lines, go_i, pkg, go_bench,
          ts_lines, ts_i, section, ts_bench,
          loadgen, content, out_file

vars == <<pc, go_lines, go_i, pkg, go_bench,
          ts_lines, ts_i, section, ts_bench,
          loadgen, content, out_file>>

go_vars == <<go_lines, go_i, pkg, go_bench>>
ts_vars == <<ts_lines, ts_i, section, ts_bench>>
main_vars == <<loadgen, content, out_file>>

\* ------------------------------------------------------------------ bounds

\* Longest input file (in lines) given to a parser checked on its own.
MaxLines == 3
\* Longest input file (in lines) given to each parser inside a run of main.
MaxMainLines == 2

\* ----------------------------------------------------------- character classes

Space == {" ", "\t", "\n"}
Digit == {"0", "1", "5"}
NumDot == Digit \cup {"."}
\* Atoms made of letters and digits only.
AlNum == Digit \cup {"Benchmark", "x", "e2ee", "handshake", "record", "yamux"}
\* Every atom that is not whitespace (the class \S).
NonSpace == AlNum \cup {".", ",", "-", ">", "·", "pkg:", "ns/op", "B/op",
                        "allocs/op", "/crypto/e2ee", "/tunnel/server"}

\* ------------------------------------------------------------ string operations

Min(S) == CHOOSE m \in S : \A k \in S : m <= k
Max(S) == CHOOSE m \in S : \A k \in S : m >= k

\* s[k], or the empty atom past either end of s.
At(s, k) == IF k \in 1..Len(s) THEN s[k] ELSE ""

\* str.strip(): leading and trailing whitespace removed.
Strip(s) ==
    LET keep == {k \in 1..Len(s) : s[k] \notin Space}
    IN  IF keep = {} THEN <<>> ELSE SubSeq(s, Min(keep), Max(keep))

\* The elements of a set of integers in increasing order.
Sorted(S) ==
    [n \in 1..Cardinality(S) |-> CHOOSE k \in S : Cardinality({j \in S : j < k}) = n - 1]

\* Last index of the maximal run of atoms of class C that starts at k
\* (k - 1 when s[k] is not in C): what a greedy C* consumes from k.
RunEnd(s, k, C) ==
    LET stop == {j \in k..Len(s) : s[j] \notin C}
    IN  IF stop = {} THEN Len(s) ELSE Min(stop) - 1

\* Where the maximal runs of non-whitespace of s start.
FieldStarts(s) ==
    Sorted({k \in 1..Len(s) : s[k] \notin Space /\ At(s, k - 1) \in Space \cup {""}})

\* str.split(): the maximal runs of non-whitespace, in order.
Split(s) ==
    LET st == FieldStarts(s)
    IN  [n \in 1..Len(st) |->
           SubSeq(s, st[n], Min({j \in st[n]..Len(s) : At(s, j + 1) \in Space \cup {""}}))]

\* str.startswith(prefix)
StartsWith(s, prefix) ==
    Len(s) >= Len(prefix) /\ SubSeq(s, 1, Len(prefix)) = prefix

IsSuffix(a, b) ==
    Len(b) >= Len(a) /\ SubSeq(b, Len(b) - Len(a) + 1, Len(b)) = a

EndsWithSwapped(s, suffix) == IsSuffix(s, suffix)

\* str.endswith(suffix)
EndsWith(s, suffix) == IsSuffix(suffix, s)

\* sub in s
Contains(s, sub) ==
    \E k \in 1..(Len(s) - Len(sub) + 1) : SubSeq(s, k, k + Len(sub) - 1) = sub

\* s.replace(atom, ""): every occurrence removed.
Remove(s, atom) == SelectSeq(s, LAMBDA a : a # atom)

\* ------------------------------------------------------------------ parse_go

NoMatch == [matched |-> FALSE, name |-> <<>>, ns_op |-> <<>>, b_op |-> <<>>,
            allocs |-> <<>>]

\* bench_re.match(line) for
\*   ^(Benchmark\S+)\s+\d+\s+([0-9.]+) ns/op\s+([0-9.]+) B/op\s+(\d+) allocs/op$
\* scanned left to right.  Each repetition is followed by an element of a
\* disjoint class, so the greedy run is the only way it can match.
\* `nameMin` is the least number of atoms \S+ (or a variant of it) must take
\* after "Benchmark"; `anchored` says whether the pattern ends in $.
BenchScan(s, nameMin, anchored) ==
    LET e1 == RunEnd(s, 2, NonSpace)        \* (Benchmark\S+)
        e2 == RunEnd(s, e1 + 1, Space)      \* \s+
        e3 == RunEnd(s, e2 + 1, Digit)      \* \d+
        e4 == RunEnd(s, e3 + 1, Space)      \* \s+
        e5 == RunEnd(s, e4 + 1, NumDot)     \* ([0-9.]+)
        e6 == RunEnd(s, e5 + 3, Space)      \* " ns/op" then \s+
        e7 == RunEnd(s, e6 + 1, NumDot)     \* ([0-9.]+)
        e8 == RunEnd(s, e7 + 3, Space)      \* " B/op" then \s+
        e9 == RunEnd(s, e8 + 1, Digit)      \* (\d+)
    IN  IF /\ At(s, 1) = "Benchmark"
           /\ e1 >= 1 + nameMin
           /\ e2 >= e1 + 1
           /\ e3 >= e2 + 1
           /\ e4 >= e3 + 1
           /\ e5 >= e4 + 1
           /\ At(s, e5 + 1) = " " /\ At(s, e5 + 2) = "ns/op"
           /\ e6 >= e5 + 3
           /\ e7 >= e6 + 1
           /\ At(s, e7 + 1) = " " /\ At(s, e7 + 2) = "B/op"
           /\ e8 >= e7 + 3
           /\ e9 >= e8 + 1
           /\ At(s, e9 + 1) = " " /\ At(s, e9 + 2) = "allocs/op"
           /\ (anchored => Len(s) = e9 + 2)
        THEN [matched |-> TRUE,
              name    |-> SubSeq(s, 1, e1),
              ns_op   |-> SubSeq(s, e4 + 1, e5),
              b_op    |-> SubSeq(s, e6 + 1, e7),
              allocs  |-> SubSeq(s, e8 + 1, e9)]
        ELSE NoMatch

\* The pattern with (Benchmark\S*) for its first group.
bench_re_star(s) == BenchScan(s, 0, TRUE)

\* The pattern without the closing $.
bench_re_open(s) == BenchScan(s, 1, FALSE)

bench_re(s) == BenchScan(s, 1, TRUE)

E2EE_SUFFIX == <<"/crypto/e2ee">>
TUNNEL_SUFFIX == <<"/tunnel/server">>

\* The bucket chosen by `in` instead of endswith.
GoBucketContains(p) ==
    IF Contains(p, E2EE_SUFFIX) THEN "e2ee"
    ELSE IF Contains(p, TUNNEL_SUFFIX) THEN "tunnel"
    ELSE "none"

\* The bucket of a record seen under package p ("none": dropped).
GoBucket(p) ==
    IF EndsWith(p, E2EE_SUFFIX) THEN "e2ee"
    ELSE IF EndsWith(p, TUNNEL_SUFFIX) THEN "tunnel"
    ELSE "none"

GoItem(m) == [name |-> m.name, ns_op |-> m.ns_op, b_op |-> m.b_op,
              allocs |-> m.allocs]

\* pkg after a "pkg:" line whose fields are parts, with no check of len(parts).
GoPkgAfterReset(cur, parts) == IF Len(parts) >= 2 THEN parts[2] ELSE <<>>

\* pkg after a "pkg:" line whose fields are parts.
GoPkgAfter(cur, parts) == IF Len(parts) >= 2 THEN parts[2] ELSE cur

\* One iteration of the loop of parse_go.
parse_go_line ==
    /\ pc = "parse_go"
    /\ go_i <= Len(go_lines)
    /\ LET line == Strip(go_lines[go_i])
           m    == bench_re(line)
           b    == GoBucket(pkg)
       IN  IF StartsWith(line, <<"pkg:">>)
           THEN /\ pkg' = GoPkgAfter(pkg, Split(line))
                /\ go_bench' = go_bench
           ELSE /\ pkg' = pkg
                /\ go_bench' =
                     IF m.matched /\ b # "none"
                     THEN [go_bench EXCEPT ![b] = Append(@, GoItem(m))]
                     ELSE go_bench
    /\ go_i' = go_i + 1
    /\ UNCHANGED <<pc, go_lines, ts_vars, main_vars>>

\* The loop is over: parse_go returns out.
parse_go_return ==
    /\ pc = "parse_go"
    /\ go_i > Len(go_lines)
    /\ pc' = "parse_go_done"
    /\ UNCHANGED <<go_vars, ts_vars, main_vars>>

\* ------------------------------------------------------------ native-log lines

\* pkg: x/crypto/e2ee
GoPkgE2ee == <<"pkg:", " ", "x", "/crypto/e2ee", "\n">>
\* pkg:x \t x/tunnel/server
GoPkgTunnel == <<"pkg:", "x", " ", "\t", "x", "/tunnel/server", "\n">>
\* pkg: x/crypto/e2ee-x     (another package)
GoPkgOther == <<"pkg:", " ", "x", "/crypto/e2ee", "-", "x", "\n">>
\* pkg:                     (no second field)
GoPkgBare == <<" ", "pkg:", " ", "\n">>
\* BenchmarkX-1 \t10\t 5.10 ns/op\t 1 B/op\t 0 allocs/op
GoRecA == <<"Benchmark", "x", "-", "1", " ", "\t", "1", "0", "\t", " ",
            "5", ".", "1", "0", " ", "ns/op", "\t", " ", "1", " ", "B/op",
            "\t", " ", "0", " ", "allocs/op", "\n">>
\*   Benchmark1 1 1.5.1 ns/op 0.0 B/op 15 allocs/op     (indented, last line)
GoRecB == <<" ", " ", "Benchmark", "1", " ", "1", " ", "1", ".", "5", ".", "1",
            " ", "ns/op", " ", "0", ".", "0", " ", "B/op", " ", "1", "5", " ",
            "allocs/op">>
\* BenchmarkX 1 5.1  ns/op 1 B/op 0 allocs/op          (two spaces before ns/op)
GoNearUnit == <<"Benchmark", "x", " ", "1", " ", "5", ".", "1", " ", " ",
                "ns/op", " ", "1", " ", "B/op", " ", "0", " ", "allocs/op", "\n">>
\* BenchmarkX 1 5.1 ns/op 1 B/op 0 allocs/op x         (text after the record)
GoNearTail == <<"Benchmark", "x", " ", "1", " ", "5", ".", "1", " ",
                "ns/op", " ", "1", " ", "B/op", " ", "0", " ", "allocs/op",
                " ", "x", "\n">>
\* Benchmark 1 5.1 ns/op 1 B/op 0 allocs/op            (marker word alone)
GoNearName == <<"Benchmark", " ", "1", " ", "5", ".", "1", " ",
                "ns/op", " ", "1", " ", "B/op", " ", "0", " ", "allocs/op", "\n">>
\* BenchmarkX 1 5.1 ns/op 1 B/op 0.5 allocs/op         (fractional allocs)
GoNearAllocs == <<"Benchmark", "x", " ", "1", " ", "5", ".", "1", " ",
                  "ns/op", " ", "1", " ", "B/op", " ", "0", ".", "5", " ",
                  "allocs/op", "\n">>
\* x BenchmarkX 1 5.1 ns/op 1 B/op 0 allocs/op         (record not at the start)
GoNearHead == <<"x", " ", "Benchmark", "x", " ", "1", " ", "5", ".", "1", " ",
                "ns/op", " ", "1", " ", "B/op", " ", "0", " ", "allocs/op", "\n">>
\* blank line
GoBlank == <<"\n">>
\* ok  x 0.5                                           (tool chatter)
GoBanner == <<"x", " ", " ", "x", "\t", "0", ".", "5", "\n">>

GoLines == {GoPkgE2ee, GoPkgTunnel, GoPkgOther, GoPkgBare, GoRecA, GoRecB,
            GoNearUnit, GoNearTail, GoNearName, GoNearAllocs, GoNearHead,
            GoBlank, GoBanner}

RECURSIVE Flatten(_)
Flatten(ls) == IF ls = <<>> THEN <<>> ELSE Head(ls) \o Flatten(Tail(ls))

\* for line in f: the text cut after each "\n"; a last line may have none.
ReadLines(text) ==
    LET ends == {k \in 1..Len(text) : text[k] = "\n" \/ k = Len(text)}
        e == Sorted(ends)
    IN  [n \in 1..Len(e) |-> SubSeq(text, IF n = 1 THEN 1 ELSE e[n - 1] + 1, e[n])]

\* The lines of every file written as at most n of the lines L, one after
\* the other.
Files(L, n) == {ReadLines(Flatten(c)) : c \in UNION {[1..k -> L] : k \in 0..n}}

EmptyGo == [e2ee |-> <<>>, tunnel |-> <<>>]
EmptyTs == [handshake |-> <<>>, record |-> <<>>, yamux |-> <<>>]

\* ------------------------------------------------------------------ parse_ts

BULLET == "·"
MARK_HANDSHAKE == <<">", " ", "e2ee", " ", "handshake">>
MARK_RECORD == <<">", " ", "e2ee", " ", "record">>
MARK_YAMUX == <<">", " ", "yamux">>

\* The marker tests with the record marker filed under the handshake bucket.
TsMarkerMisfiled(line) ==
    IF Contains(line, MARK_HANDSHAKE) THEN "handshake"
    ELSE IF Contains(line, MARK_RECORD) THEN "handshake"
    ELSE IF Contains(line, MARK_YAMUX) THEN "yamux"
    ELSE "None"

\* The marker tests made only on lines that are not bullet rows.
TsMarkerAfterBullet(line) ==
    IF StartsWith(Strip(line), <<BULLET>>) THEN "None"
    ELSE IF Contains(line, MARK_HANDSHAKE) THEN "handshake"
    ELSE IF Contains(line, MARK_RECORD) THEN "record"
    ELSE IF Contains(line, MARK_YAMUX) THEN "yamux"
    ELSE "None"

\* The section a line switches to ("None": the line is no section marker).
\* The three tests are made in this order on the line as read.
TsMarker(line) ==
    IF Contains(line, MARK_HANDSHAKE) THEN "handshake"
    ELSE IF Contains(line, MARK_RECORD) THEN "record"
    ELSE IF Contains(line, MARK_YAMUX) THEN "yamux"
    ELSE "None"

\* The fields of a row split without removing the bullet.
TsPartsKeepBullet(line) == Split(line)

\* line.replace("·", "").split()
TsParts(line) == Split(Remove(line, BULLET))

MIN_TS_FIELDS == 5

TsItem(parts) == [name |-> parts[1], hz |-> parts[2], mean_ms |-> parts[5]]

\* One iteration of the loop of parse_ts.
parse_ts_line ==
    /\ pc = "parse_ts"
    /\ ts_i <= Len(ts_lines)
    /\ LET raw   == ts_lines[ts_i]
           mark  == TsMarker(raw)
           line  == Strip(raw)
           parts == TsParts(line)
       IN  IF mark # "None"
           THEN /\ section' = mark
                /\ ts_bench' = ts_bench
           ELSE /\ section' = section
                /\ ts_bench' =
                     IF (~StartsWith(line, <<BULLET>>)) \/ section = "None"
                     THEN ts_bench
                     ELSE IF Len(parts) < MIN_TS_FIELDS
                          THEN ts_bench
                          ELSE [ts_bench EXCEPT ![section] = Append(@, TsItem(parts))]
    /\ ts_i' = ts_i + 1
    /\ UNCHANGED <<pc, ts_lines, go_vars, main_vars>>

\* The loop is over: parse_ts returns out.
parse_ts_return ==
    /\ pc = "parse_ts"
    /\ ts_i > Len(ts_lines)
    /\ pc' = "parse_ts_done"
    /\ UNCHANGED <<go_vars, ts_vars, main_vars>>

\* ------------------------------------------------------------ script-log lines

\*  x > e2ee handshake 1
TsMarkHandshake == <<" ", "x", " ", ">", " ", "e2ee", " ", "handshake", " ", "1", "\n">>
\* x> e2ee record
TsMarkRecord == <<"x", ">", " ", "e2ee", " ", "record", "\n">>
\* > yamux
TsMarkYamux == <<">", " ", "yamux", "\n">>
\*  · x > yamux 1 1 5              (a marker inside a bullet row of six fields)
TsMarkBullet == <<" ", "·", " ", "x", " ", ">", " ", "yamux", " ", "1", " ", "1",
                  " ", "5", "\n">>
\* > yamux > e2ee record           (two markers on one line)
TsMarkTwo == <<">", " ", "yamux", " ", ">", " ", "e2ee", " ", "record", "\n">>
\* · >e2ee record 1 1 5            (no marker: no space after ">")
TsNearMark == <<"·", " ", ">", "e2ee", " ", "record", " ", "1", " ", "1", " ",
                "5", "\n">>
\*   · x  1,5.0 1 1 0.50 x
TsRowA == <<" ", " ", "·", " ", "x", " ", " ", "1", ",", "5", ".", "0", " ", "1",
            " ", "1", " ", "0", ".", "5", "0", " ", "x", "\n">>
\* ·x-1 1 1 1 5                    (bullet glued to the name, last line)
TsRowB == <<"·", "x", "-", "1", " ", "1", " ", "1", " ", "1", " ", "5">>
\* · x 1·5 1 1 0.5                 (a bullet inside a field)
TsRowInner == <<"·", " ", "x", " ", "1", "·", "5", " ", "1", " ", "1", " ", "0",
                ".", "5", "\n">>
\* · x 1 1 1                       (five fields with the bullet, four without)
TsShort == <<"·", " ", "x", " ", "1", " ", "1", " ", "1", "\n">>
\* · x · 1 · 1 5                   (seven fields with the bullets, four without)
TsShortBullets == <<"·", " ", "x", " ", "·", " ", "1", " ", "·", " ", "1", " ",
                    "5", "\n">>
\* x 1 1 1 5                       (five fields, no bullet)
TsNoBullet == <<"x", " ", "1", " ", "1", " ", "1", " ", "5", "\n">>
\* blank line
TsBlank == <<" ", "\n">>

TsLines == {TsMarkHandshake, TsMarkRecord, TsMarkYamux, TsMarkBullet, TsMarkTwo,
            TsNearMark, TsRowA, TsRowB, TsRowInner, TsShort, TsShortBullets,
            TsNoBullet, TsBlank}

\* ---------------------------------------------------------------------- main

\* The tables of the report that hold benchmark records, and what the
\* load-generator part of the template was filled from.
NoContent == [go_table |-> <<>>, tunnel_table |-> <<>>, handshake_table |-> <<>>,
              record_table |-> <<>>, yamux_table |-> <<>>, loadgen |-> "unread"]

\* The file at args.out: not yet opened, opened for writing (created or
\* truncated, nothing written), or holding what was written.
Untouched == [state |-> "untouched", data |-> NoContent]

\* "\n".join(rows)
RECURSIVE Join(_)
Join(rows) ==
    IF rows = <<>> THEN <<>>
    ELSE IF Len(rows) = 1 THEN rows[1]
    ELSE rows[1] \o <<"\n">> \o Join(Tail(rows))

\* f"{float(v):.6f}" on a decimal string with at most six decimals.
FmtFloat(v) ==
    LET dots == {k \in 1..Len(v) : v[k] = "."}
        decimals == IF dots = {} THEN 0 ELSE Len(v) - Min(dots)
        int_part == IF dots = {} THEN v ELSE SubSeq(v, 1, Min(dots) - 1)
        frac == IF dots = {} THEN <<>> ELSE SubSeq(v, Min(dots) + 1, Len(v))
    IN  int_part \o <<".">> \o frac \o [k \in 1..(6 - decimals) |-> "0"]

CELL == <<" ", "|", " ">>

\* A native-benchmark row with ns/op rendered through fmt_float.
GoRowFloat(r) ==
    <<"|", " ">> \o r.name \o CELL \o FmtFloat(r.ns_op) \o CELL \o r.b_op
        \o CELL \o r.allocs \o <<" ", "|">>

\* f"| {r['name']} | {r['ns_op']} | {r['b_op']} | {r['allocs']} |"
GoRow(r) ==
    <<"|", " ">> \o r.name \o CELL \o r.ns_op \o CELL \o r.b_op
        \o CELL \o r.allocs \o <<" ", "|">>

\* f"| {r['name']} | {r['hz']} | {r['mean_ms']} |"
TsRow(r) ==
    <<"|", " ">> \o r.name \o CELL \o r.hz \o CELL \o r.mean_ms \o <<" ", "|">>

GoTable(rs) == Join([k \in 1..Len(rs) |-> GoRow(rs[k])])
TsTable(rs) == Join([k \in 1..Len(rs) |-> TsRow(rs[k])])

\* The lines main passes to the parsers: a package line for each bucket,
\* records, rows and markers, and one line of noise for each parser.
MainGoLines == {GoPkgE2ee, GoPkgTunnel, GoRecA, GoRecB, GoBanner}
MainTsLines == {TsMarkHandshake, TsMarkYamux, TsRowA, TsRowInner, TsShort}

\* What json.load and the template make of the load-generator file:
\*   "ok"          a document every field of which renders;
\*   "non_numeric" a document with a latency or resource field that
\*                 float()/int() rejects, so fmt_float or fmt_int raises;
\*   "surrogate"   a document with a string holding a lone surrogate
\*                 ("\ud800"), which json.load accepts and UTF-8 cannot encode.
LoadgenDocs == {"ok", "non_numeric", "surrogate"}

\* go_bench = parse_go(args.go_output): open() raises or the scan starts.
main_parse_go ==
    /\ pc = "main"
    /\ \E readable \in BOOLEAN, f \in Files(MainGoLines, MaxMainLines) :
         IF readable
         THEN /\ pc' = "parse_go"
              /\ go_lines' = f
              /\ go_i' = 1
              /\ pkg' = <<>>
              /\ go_bench' = EmptyGo
         ELSE /\ pc' = "raised"
              /\ UNCHANGED go_vars
    /\ UNCHANGED <<ts_vars, main_vars>>

\* ts_bench = parse_ts(args.ts_output): open() raises or the scan starts.
main_parse_ts ==
    /\ pc = "parse_go_done"
    /\ \E readable \in BOOLEAN, f \in Files(MainTsLines, MaxMainLines) :
         IF readable
         THEN /\ pc' = "parse_ts"
              /\ ts_lines' = f
              /\ ts_i' = 1
              /\ section' = "None"
              /\ ts_bench' = EmptyTs
         ELSE /\ pc' = "raised"
              /\ UNCHANGED ts_vars
    /\ UNCHANGED <<go_vars, main_vars>>

\* with open(args.loadgen_output) as f: loadgen = json.load(f)
\* open() raises, json.load raises, or the document is loaded.
main_load_json ==
    /\ pc = "parse_ts_done"
    /\ \E outcome \in {"unreadable", "malformed"} \cup LoadgenDocs :
         IF outcome \in LoadgenDocs
         THEN pc' = "render" /\ loadgen' = outcome
         ELSE pc' = "raised" /\ loadgen' = loadgen
    /\ UNCHANGED <<go_vars, ts_vars, content, out_file>>

\* Lines 102-284: ram_gb, the tables and the template.  float(args.ram_bytes)
\* and fmt_float/fmt_int raise on text that is no number.
main_render ==
    /\ pc = "render"
    /\ \E ram_ok \in BOOLEAN :
         IF ram_ok /\ loadgen # "non_numeric"
         THEN /\ pc' = "open_out"
              /\ content' = [go_table        |-> GoTable(go_bench.e2ee),
                             tunnel_table    |-> GoTable(go_bench.tunnel),
                             handshake_table |-> TsTable(ts_bench.handshake),
                             record_table    |-> TsTable(ts_bench.record),
                             yamux_table     |-> TsTable(ts_bench.yamux),
                             loadgen         |-> loadgen]
         ELSE /\ pc' = "raised"
              /\ content' = content
    /\ UNCHANGED <<go_vars, ts_vars, loadgen, out_file>>

\* open(args.out, "w", encoding="utf-8"): raises on an unwritable path,
\* otherwise the file is created or truncated.
main_open_out ==
    /\ pc = "open_out"
    /\ \E writable \in BOOLEAN :
         IF writable
         THEN pc' = "write" /\ out_file' = [state |-> "truncated", data |-> NoContent]
         ELSE pc' = "raised" /\ out_file' = out_file
    /\ UNCHANGED <<go_vars, ts_vars, loadgen, content>>

\* f.write(content): the text is encoded to UTF-8 first; a lone surrogate
\* raises UnicodeEncodeError before a byte reaches the file.
main_write ==
    /\ pc = "write"
    /\ IF content.loadgen = "surrogate"
       THEN pc' = "raised" /\ out_file' = out_file
       ELSE pc' = "done" /\ out_file' = [state |-> "written", data |-> content]
    /\ UNCHANGED <<go_vars, ts_vars, loadgen, content>>

\* ------------------------------------------------------------ specifications

\* The locals of parse_go on entry.
GoEntry(f) ==
    /\ go_lines = f
    /\ go_i = 1
    /\ pkg = <<>>
    /\ go_bench = EmptyGo

\* The locals of parse_ts on entry.
TsEntry(f) ==
    /\ ts_lines = f
    /\ ts_i = 1
    /\ section = "None"
    /\ ts_bench = EmptyTs

MainEntry ==
    /\ loadgen = "unread"
    /\ content = NoContent
    /\ out_file = Untouched

\* parse_go on every native log of at most MaxLines lines.
InitGo ==
    /\ pc = "parse_go"
    /\ \E f \in Files(GoLines, MaxLines) : GoEntry(f)
    /\ TsEntry(<<>>)
    /\ MainEntry

NextGo == parse_go_line \/ parse_go_return

SpecGo == InitGo /\ [][NextGo]_vars

\* parse_ts on every script log of at most MaxLines lines.
InitTs ==
    /\ pc = "parse_ts"
    /\ \E f \in Files(TsLines, MaxLines) : TsEntry(f)
    /\ GoEntry(<<>>)
    /\ MainEntry

NextTs == parse_ts_line \/ parse_ts_return

SpecTs == InitTs /\ [][NextTs]_vars

\* A run of main.
InitMain ==
    /\ pc = "main"
    /\ GoEntry(<<>>)
    /\ TsEntry(<<>>)
    /\ MainEntry

NextMain ==
    \/ main_parse_go
    \/ parse_go_line
    \/ parse_go_return
    \/ main_parse_ts
    \/ parse_ts_line
    \/ parse_ts_return
    \/ main_load_json
    \/ main_render
    \/ main_open_out
    \/ main_write

SpecMain == InitMain /\ [][NextMain]_vars

\* ------------------------------------------------- properties of parse_go

AllIn(t, C) == \A k \in 1..Len(t) : t[k] \in C

\* A line whose first field begins with the package marker.
IsPkgLine(l) == LET fs == Split(l) IN fs # <<>> /\ fs[1][1] = "pkg:"

\* Field n of s is preceded by exactly one space character.
OneSpaceBefore(s, n) ==
    LET k == FieldStarts(s)[n] IN At(s, k - 1) = " " /\ At(s, k - 2) \notin Space

\* A line of the five-field record form, read field by field: name, iteration
\* count, time and "ns/op", bytes and "B/op", allocations and "allocs/op".
IsRecordLine(l) ==
    LET fs == Split(l)
    IN  /\ Len(fs) = 8
        /\ fs[1][1] = "Benchmark" /\ Len(fs[1]) >= 2
        /\ AllIn(fs[2], Digit)
        /\ AllIn(fs[3], NumDot) /\ fs[4] = <<"ns/op">> /\ OneSpaceBefore(l, 4)
        /\ AllIn(fs[5], NumDot) /\ fs[6] = <<"B/op">> /\ OneSpaceBefore(l, 6)
        /\ AllIn(fs[7], Digit) /\ fs[8] = <<"allocs/op">> /\ OneSpaceBefore(l, 8)

RecordOf(l) ==
    LET fs == Split(l)
    IN  [name |-> fs[1], ns_op |-> fs[3], b_op |-> fs[5], allocs |-> fs[7]]

\* The second field of the last package line with a second field among the
\* first n lines of f (empty when there is none).
PkgAfter(f, n) ==
    LET decl == {k \in 1..n : IsPkgLine(f[k]) /\ Len(Split(f[k])) >= 2}
    IN  IF decl = {} THEN <<>> ELSE Split(f[Max(decl)])[2]

\* The bucket a package path selects.
Selected(p) ==
    IF p # <<>> /\ p[Len(p)] = "/crypto/e2ee" THEN "e2ee"
    ELSE IF p # <<>> /\ p[Len(p)] = "/tunnel/server" THEN "tunnel"
    ELSE "none"

\* The record lines among the first n lines of f that stand under a package
\* selecting bucket b, in input order.
GoSources(f, n, b) ==
    Sorted({k \in 1..n : IsRecordLine(f[k]) /\ Selected(PkgAfter(f, k - 1)) = b})

GoExpected(f, n, b) ==
    LET src == GoSources(f, n, b) IN [j \in 1..Len(src) |-> RecordOf(f[src[j]])]

InParseGo == pc \in {"parse_go", "parse_go_done"}

\* C1: at every point of the scan each bucket of parse_go holds exactly the
\* records of the matching lines read so far under a package selecting that
\* bucket, in input order; matching lines under any other package are in no
\* bucket.
C1_GoBuckets ==
    InParseGo =>
        /\ go_bench.e2ee = GoExpected(go_lines, go_i - 1, "e2ee")
        /\ go_bench.tunnel = GoExpected(go_lines, go_i - 1, "tunnel")

\* parse_go has returned with a record in the tunnel bucket and none in the
\* other, after dropping a matching line that stood under a package selecting
\* neither bucket.
C1_Witness ==
    /\ pc = "parse_go_done"
    /\ go_bench.e2ee = <<>> /\ Len(go_bench.tunnel) = 1
    /\ \E k \in 1..Len(go_lines) :
         IsRecordLine(go_lines[k]) /\ Selected(PkgAfter(go_lines, k - 1)) = "none"

HasPkgLine(f) == \E k \in 1..Len(f) : IsPkgLine(f[k])

\* C3: on an input with no package-declaration line the Group of parse_go
\* has both keys, e2ee and tunnel, and both map to the empty sequence.
C3_NoPackageEmpty ==
    (InParseGo /\ ~HasPkgLine(go_lines)) =>
        /\ DOMAIN go_bench = {"e2ee", "tunnel"}
        /\ go_bench.e2ee = <<>>
        /\ go_bench.tunnel = <<>>

\* parse_go has returned from an input with matching lines and no package
\* line.
C3_Witness ==
    /\ pc = "parse_go_done"
    /\ ~HasPkgLine(go_lines)
    /\ Cardinality({k \in 1..Len(go_lines) : IsRecordLine(go_lines[k])}) >= 2

GoRecords == {go_bench.e2ee[k] : k \in 1..Len(go_bench.e2ee)}
                \cup {go_bench.tunnel[k] : k \in 1..Len(go_bench.tunnel)}

\* C7 as stated: every record in a bucket has a non-empty alphanumeric name
\* beginning with "Benchmark".
C7_NameAlphanumeric ==
    \A r \in GoRecords :
        r.name # <<>> /\ r.name[1] = "Benchmark" /\ AllIn(r.name, AlNum)

\* C7 amended: every record in a bucket has a name that is the marker word
\* "Benchmark" followed by at least one more character, none of them
\* whitespace.
C7_NameToken ==
    \A r \in GoRecords :
        /\ Len(r.name) >= 2
        /\ r.name[1] = "Benchmark"
        /\ \A k \in 1..Len(r.name) : r.name[k] \notin Space

\* A record whose name has a character that is neither letter nor digit is
\* in a bucket.
C7_Witness ==
    /\ pc = "parse_go_done"
    /\ \E r \in GoRecords : ~AllIn(r.name, AlNum)

\* The line the scan of parse_go is at is neither package line nor record.
GoAtNoise ==
    /\ pc = "parse_go"
    /\ go_i <= Len(go_lines)
    /\ ~IsPkgLine(go_lines[go_i])
    /\ ~IsRecordLine(go_lines[go_i])

\* C8: a line that is neither a package declaration nor a record is skipped:
\* the scan moves to the next line with the current package and both buckets
\* unchanged, and enters no error state.
C8_NoiseSkipped ==
    [][GoAtNoise =>
         /\ pc' = "parse_go"
         /\ go_i' = go_i + 1
         /\ pkg' = pkg
         /\ go_bench' = go_bench]_vars

\* A near-record line (text after allocs/op) has just been skipped under a
\* package that selects a bucket already holding a record.
C8_Witness ==
    /\ pc = "parse_go"
    /\ go_i = 4
    /\ go_lines[3] = GoNearTail
    /\ Selected(pkg) = "e2ee"
    /\ Len(go_bench.e2ee) = 1

\* The line the scan of parse_go is at is a package line.
GoAtPkgLine ==
    /\ pc = "parse_go"
    /\ go_i <= Len(go_lines)
    /\ IsPkgLine(go_lines[go_i])

\* C9: the current package starts empty, and after each line it is the second
\* field of the last package line with a second field read so far; a package
\* line with no second field keeps it, a line that is no package line keeps
\* it, and a package line adds no record.
C9_CurrentPackage ==
    /\ (pc = "parse_go" /\ go_i = 1 => pkg = <<>>)
    /\ [][/\ pc = "parse_go" /\ go_i <= Len(go_lines) =>
               pkg' = PkgAfter(go_lines, go_i)
          /\ GoAtPkgLine => go_bench' = go_bench
          /\ GoAtPkgLine /\ Len(Split(go_lines[go_i])) < 2 => pkg' = pkg
          /\ pc = "parse_go" /\ go_i <= Len(go_lines) /\ ~GoAtPkgLine => pkg' = pkg
         ]_vars

\* A package line with no second field has been read after a package was
\* set, and the package is still set.
C9_Witness ==
    /\ pc = "parse_go"
    /\ go_i = 3
    /\ go_lines[2] = GoPkgBare
    /\ pkg = <<"x", "/tunnel/server">>

\* ------------------------------------------------- properties of parse_ts

TsBuckets == {"handshake", "record", "yamux"}

MarkerText(b) ==
    IF b = "handshake" THEN <<">", " ", "e2ee", " ", "handshake">>
    ELSE IF b = "record" THEN <<">", " ", "e2ee", " ", "record">>
    ELSE <<">", " ", "yamux">>

\* The buckets whose marker text stands somewhere in l.
Marks(l) ==
    {b \in TsBuckets :
        \E k \in 1..Len(l) :
            \A j \in 1..Len(MarkerText(b)) : At(l, k + j - 1) = MarkerText(b)[j]}

IsMarkerLine(l) == Marks(l) # {}

\* The bucket of a marker line; the handshake marker wins over the record
\* marker, and both over the yamux marker.
MarkerBucket(l) ==
    IF "handshake" \in Marks(l) THEN "handshake"
    ELSE IF "record" \in Marks(l) THEN "record"
    ELSE "yamux"

\* The bucket of the last marker line among the first n lines of f.
SectionAfter(f, n) ==
    LET marked == {k \in 1..n : IsMarkerLine(f[k])}
    IN  IF marked = {} THEN "None" ELSE MarkerBucket(f[Max(marked)])

\* The trimmed line starts with the bullet.
IsBulletRow(l) == LET fs == Split(l) IN fs # <<>> /\ fs[1][1] = BULLET

\* The fields of l once the bullets are taken out of each of them.
KeptFields(l) ==
    LET fs == Split(l)
    IN  SelectSeq([k \in 1..Len(fs) |-> SelectSeq(fs[k], LAMBDA a : a # BULLET)],
                  LAMBDA t : t # <<>>)

\* A qualifying bullet row.
Qualifies(l) == IsBulletRow(l) /\ Len(KeptFields(l)) >= 5

RowOf(l) ==
    LET fs == KeptFields(l) IN [name |-> fs[1], hz |-> fs[2], mean_ms |-> fs[5]]

\* The qualifying rows among the first n lines of f whose last preceding
\* marker line is of bucket b, in input order.
TsSourcesAny(f, n, b) ==
    Sorted({k \in 1..n : Qualifies(f[k]) /\ SectionAfter(f, k - 1) = b})

\* The same, leaving out the rows that contain a marker themselves.
TsSources(f, n, b) ==
    Sorted({k \in 1..n :
              Qualifies(f[k]) /\ ~IsMarkerLine(f[k]) /\ SectionAfter(f, k - 1) = b})

InParseTs == pc \in {"parse_ts", "parse_ts_done"}

\* C2 as stated: each bucket of parse_ts holds the qualifying bullet rows
\* (trimmed line starts with the bullet, five fields or more without the
\* bullets) read so far whose most recent preceding marker line is of that
\* bucket; rows before the first marker are in no bucket.
C2_RowsFollowMarker ==
    InParseTs =>
        \A b \in TsBuckets :
            LET src == TsSourcesAny(ts_lines, ts_i - 1, b)
            IN  ts_bench[b] = [j \in 1..Len(src) |-> RowOf(ts_lines[src[j]])]

\* C2 amended: each bucket of parse_ts holds the qualifying bullet rows that
\* contain no section marker, read so far, whose most recent preceding marker
\* line is of that bucket; rows before the first marker are in no bucket.
C2_PlainRowsFollowMarker ==
    InParseTs =>
        \A b \in TsBuckets :
            LET src == TsSources(ts_lines, ts_i - 1, b)
            IN  ts_bench[b] = [j \in 1..Len(src) |-> RowOf(ts_lines[src[j]])]

\* A row read after the section switched from handshake to yamux is in the
\* yamux bucket and not in the handshake bucket.
C2_Witness ==
    /\ pc = "parse_ts_done"
    /\ Len(ts_lines) = 3
    /\ MarkerBucket(ts_lines[1]) = "handshake" /\ IsMarkerLine(ts_lines[1])
    /\ MarkerBucket(ts_lines[2]) = "yamux" /\ IsMarkerLine(ts_lines[2])
    /\ Qualifies(ts_lines[3]) /\ ~IsMarkerLine(ts_lines[3])
    /\ ts_bench.handshake = <<>>
    /\ Len(ts_bench.yamux) = 1

\* The line the scan of parse_ts is at.
TsAt(P(_)) == pc = "parse_ts" /\ ts_i <= Len(ts_lines) /\ P(ts_lines[ts_i])

IsShortBulletRow(l) == IsBulletRow(l) /\ Len(KeptFields(l)) < 5

\* C4: a bullet-prefixed line with fewer than five fields leaves every bucket
\* unchanged, whatever the current section.
C4_ShortRowNoRecord ==
    [][TsAt(IsShortBulletRow) => ts_bench' = ts_bench]_vars

\* A bullet row of four fields (five when the bullet is counted) has just
\* been read under a section, and no bucket has a record.
C4_Witness ==
    /\ pc = "parse_ts"
    /\ ts_i = 3
    /\ section = "record"
    /\ ts_lines[2] = TsShort
    /\ ts_bench = EmptyTs

\* C10: a line containing a section marker leaves all three buckets unchanged
\* and sets the current section to the bucket of a marker it contains, also
\* when the line starts with the bullet and has five fields or more.
C10_MarkerLineOnlySwitches ==
    [][TsAt(IsMarkerLine) =>
         /\ ts_bench' = ts_bench
         /\ section' \in Marks(ts_lines[ts_i])]_vars

\* A bullet row of six fields that contains the yamux marker has just been
\* read under the handshake section: the section is yamux, no record.
C10_Witness ==
    /\ pc = "parse_ts"
    /\ ts_i = 3
    /\ ts_lines[1] = TsMarkHandshake
    /\ ts_lines[2] = TsMarkBullet
    /\ Qualifies(ts_lines[2])
    /\ section = "yamux"
    /\ ts_bench = EmptyTs

\* ----------------------------------------------------- properties of main

\* The cells of a table row.
Cells(row) == SelectSeq(Split(row), LAMBDA t : t # <<"|">>)

\* The fields of l that are not made of bullets alone.
RawFields(l) == SelectSeq(Split(l), LAMBDA t : \E k \in 1..Len(t) : t[k] # BULLET)

\* A numeric string: digits, decimal points, thousands separators.
IsNumeric(t) == AllIn(t, NumDot \cup {","})

GoTableOf(c, b) == IF b = "e2ee" THEN c.go_table ELSE c.tunnel_table

TsTableOf(c, b) ==
    IF b = "handshake" THEN c.handshake_table
    ELSE IF b = "record" THEN c.record_table
    ELSE c.yamux_table

\* C5 as stated: when a run of main has ended, with or without an error, the
\* output file holds the complete report or has not been touched.
C5_CompleteOrUntouched ==
    pc \in {"done", "raised"} =>
        \/ out_file.state = "untouched"
        \/ out_file.state = "written" /\ out_file.data = content

\* C6: in the report written by main, every table row stands for one source
\* line of its bucket, in order, and its numeric cells are the numeric fields
\* of that line, atom for atom: ns/op, B/op and allocs/op of a native record;
\* ops/s and mean of a script row.
C6_NumericRoundTrip ==
    out_file.state = "written" =>
        /\ \A b \in {"e2ee", "tunnel"} :
             LET rows == ReadLines(GoTableOf(out_file.data, b))
                 src  == GoSources(go_lines, Len(go_lines), b)
             IN  /\ Len(rows) = Len(src)
                 /\ \A j \in 1..Len(src) :
                      LET c  == Cells(rows[j])
                          fs == Split(go_lines[src[j]])
                      IN  /\ Len(c) = 4
                          /\ c[2] = fs[3]
                          /\ c[3] = fs[5]
                          /\ c[4] = fs[7]
        /\ \A b \in TsBuckets :
             LET rows == ReadLines(TsTableOf(out_file.data, b))
                 src  == TsSources(ts_lines, Len(ts_lines), b)
             IN  /\ Len(rows) = Len(src)
                 /\ \A j \in 1..Len(src) :
                      LET c  == Cells(rows[j])
                          fs == RawFields(ts_lines[src[j]])
                      IN  /\ Len(c) = 3
                          /\ IsNumeric(fs[2]) => c[2] = fs[2]
                          /\ IsNumeric(fs[5]) => c[3] = fs[5]

\* A report has been written whose e2ee table shows 5.10 ns/op and whose
\* handshake table shows 1,5.0 ops/s and a mean of 0.50.
C6_Witness ==
    /\ pc = "done"
    /\ out_file.state = "written"
    /\ \E r \in {Cells(l) : l \in {ReadLines(out_file.data.go_table)[k] :
                                      k \in 1..Len(ReadLines(out_file.data.go_table))}} :
         r[2] = <<"5", ".", "1", "0">>
    /\ \E r \in {Cells(l) : l \in {ReadLines(out_file.data.handshake_table)[k] :
                                      k \in 1..Len(ReadLines(out_file.data.handshake_table))}} :
         r[2] = <<"1", ",", "5", ".", "0">> /\ r[3] = <<"0", ".", "5", "0">>

====
